---- MODULE Spec2Model ----
(***************************************************************************)
(* Tone.Part (src/Tone/event/Part.js): a group of Tone.Event children that *)
(* is started, stopped and looped as one unit against the Transport clock. *)
(*                                                                         *)
(* Part.js is modelled from its source.  Its collaborators are not part of *)
(* the source tree and are modelled from the design document:              *)
(*   - Tone.TimelineState (section 4.1): an ordered log of state records;  *)
(*   - Tone.Event (section 4.2): one schedulable child with its own log;   *)
(*   - Tone.Transport (section 6): the tick clock that fires the triggers. *)
(* All times are integer ticks (toTicks is applied to tick-valued inputs). *)
(***************************************************************************)
EXTENDS Integers, Sequences, FiniteSets

VARIABLES
    _loop,          \* Part._loop
    _loopStart,     \* Part._loopStart (ticks)
    _loopEnd,       \* Part._loopEnd (ticks)
    _playbackRate,  \* Part._playbackRate
    _probability,   \* Part._probability (percent)
    _humanize,      \* Part._humanize
    _startOffset,   \* Part._startOffset
    _state,         \* Part._state: the group's Timeline
    _events,        \* Part._events: the children, in insertion order
    mute,           \* Part.mute
    ticks,          \* Tone.Transport.ticks: the tick the clock processes next
    calls,          \* the invocations of the user callback made while the
                    \* clock processed the last tick, in order
    disposed,       \* dispose() has set _state, callback and _events to null
    fault,          \* an operation threw (a TypeError on a null field)
    lastOp          \* the operation that produced this state, with its inputs

vars == <<_loop, _loopStart, _loopEnd, _playbackRate, _probability, _humanize,
          _startOffset, _state, _events, mute, ticks, calls, disposed, fault,
          lastOp>>

----------------------------------------------------------------------------
(* Bounds of the model *)

MaxTime == 1        \* start/stop/cancel/add/remove times range over 0..MaxTime
MaxOffset == 1      \* start offsets and startOffset writes range over 0..MaxOffset
MaxTicks == 3       \* the clock processes ticks 0..MaxTicks-1
MaxEvents == 2      \* children in the list at once
MaxRecords == 3     \* records in the group's Timeline
MaxStartOffset == 2 \* a child's startOffset after writes to the group's startOffset

Times == 0..MaxTime
Offsets == 0..MaxOffset
Values == {"C2", "C3"}
Undef == "undefined"
LoopBounds == 0..MaxTime
Probabilities == {0, 100}
Draws == {0, 99}
Rates == {1, 2}

Started == "started"
Stopped == "stopped"

----------------------------------------------------------------------------
(* Tone.TimelineState (design document, section 4.1) *)

NoEvent == [state |-> "none", time |-> -1, offset |-> 0]

\* number of records with time <= t: the records are ordered by time
CountUpTo(tl, t) == Cardinality({i \in 1..Len(tl) : tl[i].time <= t})

\* addEvent: insert keeping the order; at an equal tick the new record comes
\* last, so that the latest write wins
addEvent(tl, rec) ==
    LET k == CountUpTo(tl, rec.time)
    IN  SubSeq(tl, 1, k) \o <<rec>> \o SubSeq(tl, k + 1, Len(tl))

setStateAtTime(tl, st, t) == addEvent(tl, [state |-> st, time |-> t, offset |-> 0])

\* getEvent: the last record with time <= t, none when there is no such record
getEvent(tl, t) ==
    LET k == CountUpTo(tl, t)
    IN  IF k = 0 THEN NoEvent ELSE tl[k]

\* getStateAtTime: the state of that record, the initial state Stopped if none
getStateAtTime(tl, t) ==
    LET e == getEvent(tl, t)
    IN  IF e = NoEvent THEN Stopped ELSE e.state

\* cancel: drop every record after the bound, keep those before or at it
timelineCancel(tl, after) == SelectSeq(tl, LAMBDA r : r.time <= after)

----------------------------------------------------------------------------
(* Tone.Event (design document, section 4.2) *)

\* new Tone.Event({callback, value}): defaults, then Part.add sets the rest
newEvent(value) ==
    [value |-> value, startOffset |-> 0, loop |-> FALSE,
     loopStart |-> 0, loopEnd |-> 0, humanize |-> FALSE, playbackRate |-> 1,
     probability |-> 100, state |-> <<>>]

\* event.start(tick, offset): a no-op when the child is already started at
\* that tick, else a Started record that carries the offset
eventStart(ev, tick, offset) ==
    IF getStateAtTime(ev.state, tick) = Started
    THEN ev
    ELSE [ev EXCEPT !.state =
              addEvent(@, [state |-> Started, time |-> tick, offset |-> offset])]

\* event.stop(tick): mirrors the Timeline at the level of one child
eventStop(ev, tick) ==
    IF getStateAtTime(ev.state, tick) = Started
    THEN [ev EXCEPT !.state = setStateAtTime(@, Stopped, tick)]
    ELSE ev

\* event.cancel(after): removes the child's schedule after the bound
eventCancel(ev, after) == [ev EXCEPT !.state = timelineCancel(@, after)]

\* event.cancel(): no bound, everything is removed
eventCancelAll(ev) == [ev EXCEPT !.state = <<>>]

\* event.state: the child's state at the clock's current tick
eventState(ev) == getStateAtTime(ev.state, ticks)

\* the child's trigger is due at tick x: the record active at x is a Started
\* record r, whose trigger falls at r.time + r.offset + startOffset and, for a
\* looping child, every loopEnd - loopStart ticks after that
eventDue(ev, x) ==
    LET r == getEvent(ev.state, x)
        first == r.time + r.offset + ev.startOffset
        len == ev.loopEnd - ev.loopStart
    IN  /\ r # NoEvent
        /\ r.state = Started
        /\ \/ x = first
           \/ ev.loop /\ len > 0 /\ x > first /\ (x - first) % len = 0

----------------------------------------------------------------------------
(* Tone.Part (src/Tone/event/Part.js) *)

\* Part.prototype._forEach: the callbacks that give one child its new value
\* read only the group's fields and that child, so that a loop over the list
\* is written [i \in DOMAIN _events |-> the new value of _events[i]]

\* _startNote without the test of _loop: the window decides for every group
_startNote_alwaysWindow(ev, t, offset, lp, ls, le, so) ==
    LET startTick == t + offset
        eventStartOffset == ev.startOffset - so
    IN  IF eventStartOffset >= ls /\ eventStartOffset < le
        THEN eventStart(ev, startTick, so)
        ELSE ev

\* _startNote with the upper bound of the window included
_startNote_closed(ev, t, offset, lp, ls, le, so) ==
    LET startTick == t + offset
        eventStartOffset == ev.startOffset - so
    IN  IF lp
        THEN IF eventStartOffset >= ls /\ eventStartOffset <= le
             THEN eventStart(ev, startTick, so)
             ELSE ev
        ELSE eventStart(ev, startTick, 0)

\* Part.prototype._startNote
_startNote(ev, t, offset, lp, ls, le, so) ==
    LET startTick == t + offset
        eventStartOffset == ev.startOffset - so
    IN  IF lp
        THEN IF eventStartOffset >= ls /\ eventStartOffset < le
             THEN eventStart(ev, startTick, so)
             ELSE ev
        ELSE eventStart(ev, startTick, 0)

\* _restartEvent that starts the child at the clock's current tick instead
\* of the tick of the active Started record
_restartEvent_fromNow(ev, lp, ls, le, so) ==
    LET stateEvent == getEvent(_state, ticks)
    IN  IF stateEvent # NoEvent /\ stateEvent.state = Started
        THEN _startNote(ev, ticks, stateEvent.offset, lp, ls, le, so)
        ELSE ev

\* Part.prototype._restartEvent
_restartEvent(ev, lp, ls, le, so) ==
    LET stateEvent == getEvent(_state, ticks)
    IN  IF stateEvent # NoEvent /\ stateEvent.state = Started
        THEN _startNote(ev, stateEvent.time, stateEvent.offset, lp, ls, le, so)
        ELSE ev

\* _testLoopBoundries with the upper bound of the window included
_testLoopBoundries_closed(ev, lp, ls, le, so) ==
    LET eventStartOffset == ev.startOffset - so
    IN  IF eventStartOffset < ls \/ eventStartOffset > le
        THEN eventCancelAll(ev)
        ELSE IF eventState(ev) = Stopped
             THEN _restartEvent(ev, lp, ls, le, so)
             ELSE ev

\* Part.prototype._testLoopBoundries
_testLoopBoundries(ev, lp, ls, le, so) ==
    LET eventStartOffset == ev.startOffset - so
    IN  IF eventStartOffset < ls \/ eventStartOffset >= le
        THEN eventCancelAll(ev)
        ELSE IF eventState(ev) = Stopped
             THEN _restartEvent(ev, lp, ls, le, so)
             ELSE ev

\* the record of an operation: its name and what it found
Op(name, was, n) == [op |-> name, was |-> was, n |-> n]

\* start that records the Started state and leaves the children alone
start_recordOnly(time, offset) ==
    /\ ~disposed
    /\ IF getStateAtTime(_state, time) # Started
       THEN /\ Len(_state) < MaxRecords
            /\ _state' = addEvent(_state,
                   [state |-> Started, time |-> time, offset |-> offset])
       ELSE UNCHANGED _state
    /\ lastOp' = Op("start", getStateAtTime(_state, time), 0)
    /\ UNCHANGED <<_loop, _loopStart, _loopEnd, _playbackRate, _probability,
                   _humanize, _startOffset, _events, mute, ticks, calls,
                   disposed, fault>>

\* start without the test of the state at the tick: every call is recorded
start_unguarded(time, offset) ==
    /\ ~disposed
    /\ Len(_state) < MaxRecords
    /\ _state' = addEvent(_state,
           [state |-> Started, time |-> time, offset |-> offset])
    /\ _events' = [i \in DOMAIN _events |->
           _startNote(_events[i], time, offset, _loop, _loopStart, _loopEnd,
                      _startOffset)]
    /\ lastOp' = Op("start", getStateAtTime(_state, time), 0)
    /\ UNCHANGED <<_loop, _loopStart, _loopEnd, _playbackRate, _probability,
                   _humanize, _startOffset, mute, ticks, calls, disposed,
                   fault>>

\* Part.prototype.start
start(time, offset) ==
    /\ ~disposed
    /\ IF getStateAtTime(_state, time) # Started
       THEN /\ Len(_state) < MaxRecords
            /\ _state' = addEvent(_state,
                   [state |-> Started, time |-> time, offset |-> offset])
            /\ _events' = [i \in DOMAIN _events |->
                   _startNote(_events[i], time, offset, _loop, _loopStart,
                              _loopEnd, _startOffset)]
       ELSE UNCHANGED <<_state, _events>>
    /\ lastOp' = Op("start", getStateAtTime(_state, time), 0)
    /\ UNCHANGED <<_loop, _loopStart, _loopEnd, _playbackRate, _probability,
                   _humanize, _startOffset, mute, ticks, calls, disposed,
                   fault>>

\* Part.prototype.stop
stop(time) ==
    /\ ~disposed
    /\ IF getStateAtTime(_state, time) = Started
       THEN /\ Len(_state) < MaxRecords
            /\ _state' = setStateAtTime(_state, Stopped, time)
            /\ _events' = [i \in DOMAIN _events |-> eventStop(_events[i], time)]
       ELSE UNCHANGED <<_state, _events>>
    /\ lastOp' = Op("stop", getStateAtTime(_state, time), 0)
    /\ UNCHANGED <<_loop, _loopStart, _loopEnd, _playbackRate, _probability,
                   _humanize, _startOffset, mute, ticks, calls, disposed,
                   fault>>

\* the new child without the copy of the group's settings: it keeps the
\* defaults of Tone.Event
addedEvent_defaults(time, value) ==
    [newEvent(value) EXCEPT
        !.startOffset = time,
        !.loopEnd = _loopEnd - _loopStart,
        !.loop = _loop]

\* the new child of Part.prototype.add, before it is pushed
addedEvent(time, value) ==
    [newEvent(value) EXCEPT
        !.startOffset = time,
        !.loopEnd = _loopEnd - _loopStart,
        !.loop = _loop,
        !.humanize = _humanize,
        !.playbackRate = _playbackRate,
        !.probability = _probability]

\* Part.prototype.add
add(time, value) ==
    /\ ~disposed
    /\ _events' = Append(_events,
           _restartEvent(addedEvent(time, value), _loop, _loopStart, _loopEnd,
                         _startOffset))
    /\ lastOp' = Op("add", getStateAtTime(_state, ticks), 0)
    /\ UNCHANGED <<_loop, _loopStart, _loopEnd, _playbackRate, _probability,
                   _humanize, _startOffset, _state, mute, ticks, calls,
                   disposed, fault>>

\* the test of Part.prototype.remove's callback
removeMatches(ev, time, value) ==
    /\ ev.startOffset = time
    /\ value = Undef \/ (value # Undef /\ ev.value = value)

\* Array.prototype.splice(index, 1)
splice(evs, index) == SubSeq(evs, 1, index - 1) \o SubSeq(evs, index + 1, Len(evs))

\* the callback of remove run from the first index up to the length the list
\* had at the start, as a forward loop would
RECURSIVE removeUpward(_, _, _, _, _)
removeUpward(evs, i, last, time, value) ==
    IF i > last \/ i > Len(evs)
    THEN evs
    ELSE IF removeMatches(evs[i], time, value)
         THEN removeUpward(splice(evs, i), i + 1, last, time, value)
         ELSE removeUpward(evs, i + 1, last, time, value)

removeFrom_forward(evs, i, time, value) == removeUpward(evs, 1, i, time, value)

\* Part.prototype._forEach with the callback of remove: from the last index
\* down to the first, reading this._events[i] from the list as it is then
RECURSIVE removeFrom(_, _, _, _)
removeFrom(evs, i, time, value) ==
    IF i < 1
    THEN evs
    ELSE IF removeMatches(evs[i], time, value)
         THEN removeFrom(splice(evs, i), i - 1, time, value)
         ELSE removeFrom(evs, i - 1, time, value)

\* Part.prototype.remove
remove(time, value) ==
    /\ ~disposed
    /\ _events' = removeFrom(_events, Len(_events), time, value)
    /\ lastOp' = Op("remove", "",
           Cardinality({i \in 1..Len(_events) : removeMatches(_events[i], time, value)}))
    /\ UNCHANGED <<_loop, _loopStart, _loopEnd, _playbackRate, _probability,
                   _humanize, _startOffset, _state, mute, ticks, calls,
                   disposed, fault>>

\* removeAll that also empties the group's Timeline
removeAll_clearsTimeline ==
    /\ ~disposed
    /\ _events' = <<>>
    /\ _state' = <<>>
    /\ lastOp' = Op("removeAll", "", 0)
    /\ UNCHANGED <<_loop, _loopStart, _loopEnd, _playbackRate, _probability,
                   _humanize, _startOffset, mute, ticks, calls, disposed,
                   fault>>

\* Part.prototype.removeAll
removeAll ==
    /\ ~disposed
    /\ _events' = <<>>
    /\ lastOp' = Op("removeAll", "", 0)
    /\ UNCHANGED <<_loop, _loopStart, _loopEnd, _playbackRate, _probability,
                   _humanize, _startOffset, _state, mute, ticks, calls,
                   disposed, fault>>

\* the records cancel(after) finds to remove: the lesser of the number in the
\* group's Timeline and the number in the children's schedules
RECURSIVE recordsAfter(_, _, _)
recordsAfter(evs, i, after) ==
    IF i > Len(evs)
    THEN 0
    ELSE Len(evs[i].state) - Len(timelineCancel(evs[i].state, after))
         + recordsAfter(evs, i + 1, after)

cutBy(after) ==
    LET g == Len(_state) - Len(timelineCancel(_state, after))
        c == recordsAfter(_events, 1, after)
    IN  IF g < c THEN g ELSE c

\* cancel that passes no bound on to the children: event.cancel()
cancel_unboundedChildren(after) ==
    /\ IF disposed
       THEN /\ fault' = TRUE
            /\ UNCHANGED <<_events, _state>>
       ELSE /\ _events' = [i \in DOMAIN _events |-> eventCancelAll(_events[i])]
            /\ _state' = timelineCancel(_state, after)
            /\ UNCHANGED fault
    /\ lastOp' = Op("cancel",
           IF disposed THEN "disposed"
           ELSE IF _events = <<>> /\ _state = <<>> THEN "empty" ELSE "live",
           cutBy(after))
    /\ UNCHANGED <<_loop, _loopStart, _loopEnd, _playbackRate, _probability,
                   _humanize, _startOffset, mute, ticks, calls, disposed>>

\* Part.prototype.cancel: on a disposed group _forEach reads the length of
\* the null _events and throws
cancel(after) ==
    /\ IF disposed
       THEN /\ fault' = TRUE
            /\ UNCHANGED <<_events, _state>>
       ELSE /\ _events' = [i \in DOMAIN _events |->
                               eventCancel(_events[i], after)]
            /\ _state' = timelineCancel(_state, after)
            /\ UNCHANGED fault
    /\ lastOp' = Op("cancel",
           IF disposed THEN "disposed"
           ELSE IF _events = <<>> /\ _state = <<>> THEN "empty" ELSE "live",
           cutBy(after))
    /\ UNCHANGED <<_loop, _loopStart, _loopEnd, _playbackRate, _probability,
                   _humanize, _startOffset, mute, ticks, calls, disposed>>

\* Part.prototype.dispose: removeAll, then the fields are set to null; on a
\* disposed group removeAll's _forEach reads the length of the null _events
\* and throws before anything is changed
dispose ==
    /\ IF disposed
       THEN /\ fault' = TRUE
            /\ UNCHANGED <<_events, _state, disposed>>
       ELSE /\ _events' = <<>>
            /\ _state' = <<>>
            /\ disposed' = TRUE
            /\ UNCHANGED fault
    /\ lastOp' = Op("dispose", IF disposed THEN "disposed" ELSE "live", 0)
    /\ UNCHANGED <<_loop, _loopStart, _loopEnd, _playbackRate, _probability,
                   _humanize, _startOffset, mute, ticks, calls>>

\* _tick without the look at the Timeline: it trusts that a trigger that
\* fires was meant to play
_tick_trustsTrigger(time, value) == ~mute

\* Part.prototype._tick, the callback bound to every child: whether it
\* invokes the user callback with (time, value)
_tick(time, value) ==
    ~mute /\ getStateAtTime(_state, ticks) = Started

\* the trigger of one child (design document, section 4.2): the probability
\* draw, then the bound callback
eventTick(ev, draw) ==
    draw < ev.probability /\ _tick(ticks, ev.value)

\* the triggers the clock fires at the current tick, in list order; an entry
\* of the log is the (time, value) the user callback got and the index of
\* the child whose trigger it was
RECURSIVE fireFrom(_, _, _)
fireFrom(i, draw, log) ==
    IF i > Len(_events)
    THEN log
    ELSE fireFrom(i + 1, draw,
             IF eventDue(_events[i], ticks) /\ eventTick(_events[i], draw[i])
             THEN Append(log, [time |-> ticks, value |-> _events[i].value,
                               index |-> i])
             ELSE log)

\* Tone.Transport: the clock processes the current tick, firing every
\* trigger due at it, and moves to the next
clockTick ==
    /\ \E draw \in [1..Len(_events) -> Draws] :
           calls' = fireFrom(1, draw, <<>>)
    /\ ticks' = ticks + 1
    /\ lastOp' = Op("tick", "", 0)
    /\ UNCHANGED <<_loop, _loopStart, _loopEnd, _playbackRate, _probability,
                   _humanize, _startOffset, _state, _events, mute, disposed,
                   fault>>

\* the startOffset setter
set_startOffset(offset) ==
    /\ ~disposed
    /\ \A i \in 1..Len(_events) : _events[i].startOffset + offset <= MaxStartOffset
    /\ _startOffset' = offset
    /\ _events' = [i \in DOMAIN _events |->
           [_events[i] EXCEPT !.startOffset = @ + offset]]
    /\ lastOp' = Op("startOffset", "", 0)
    /\ UNCHANGED <<_loop, _loopStart, _loopEnd, _playbackRate, _probability,
                   _humanize, _state, mute, ticks, calls, disposed, fault>>

\* the children whose schedule a write has removed
cancelledBy(evs) ==
    Cardinality({i \in 1..Len(_events) : _events[i].state # <<>> /\ evs[i].state = <<>>})

\* a child's own loop length is not the length of the group's window
staleLength(evs) ==
    \E i \in 1..Len(evs) : evs[i].loopEnd - evs[i].loopStart # _loopEnd - _loopStart

\* the loop setter without the write of the child's loop points
set_loop_keepsLength(loop) ==
    /\ ~disposed
    /\ _loop' = loop
    /\ _events' = [i \in DOMAIN _events |->
           _testLoopBoundries([_events[i] EXCEPT !.loop = loop],
                              loop, _loopStart, _loopEnd, _startOffset)]
    /\ lastOp' = Op("loop", IF staleLength(_events) THEN "stale" ELSE "",
                    cancelledBy(_events'))
    /\ UNCHANGED <<_loopStart, _loopEnd, _playbackRate, _probability,
                   _humanize, _startOffset, _state, mute, ticks, calls,
                   disposed, fault>>

\* the loop setter; lastOp records whether a child's loop length was out of
\* date when the write was made
set_loop(loop) ==
    /\ ~disposed
    /\ _loop' = loop
    /\ _events' = [i \in DOMAIN _events |->
           _testLoopBoundries(
               [_events[i] EXCEPT !.loopStart = 0,
                                  !.loopEnd = _loopEnd - _loopStart,
                                  !.loop = loop],
               loop, _loopStart, _loopEnd, _startOffset)]
    /\ lastOp' = Op("loop", IF staleLength(_events) THEN "stale" ELSE "",
                    cancelledBy(_events'))
    /\ UNCHANGED <<_loopStart, _loopEnd, _playbackRate, _probability,
                   _humanize, _startOffset, _state, mute, ticks, calls,
                   disposed, fault>>

\* the body shared by the loopEnd and loopStart setters once the field is set
retestAll(lp, ls, le) ==
    IF lp
    THEN [i \in DOMAIN _events |->
             _testLoopBoundries([_events[i] EXCEPT !.loopEnd = le - ls],
                                lp, ls, le, _startOffset)]
    ELSE _events

\* the loopEnd setter
set_loopEnd(loopEnd) ==
    /\ ~disposed
    /\ _loopEnd' = loopEnd
    /\ _events' = retestAll(_loop, _loopStart, loopEnd)
    /\ lastOp' = Op("loopEnd", "", cancelledBy(_events'))
    /\ UNCHANGED <<_loop, _loopStart, _playbackRate, _probability, _humanize,
                   _startOffset, _state, mute, ticks, calls, disposed, fault>>

\* the loopStart setter
set_loopStart(loopStart) ==
    /\ ~disposed
    /\ _loopStart' = loopStart
    /\ _events' = retestAll(_loop, loopStart, _loopEnd)
    /\ lastOp' = Op("loopStart", "", cancelledBy(_events'))
    /\ UNCHANGED <<_loop, _loopEnd, _playbackRate, _probability, _humanize,
                   _startOffset, _state, mute, ticks, calls, disposed, fault>>

\* Part.prototype._setAll
_setAll(attr, value) ==
    [i \in DOMAIN _events |->
        CASE attr = "probability" -> [_events[i] EXCEPT !.probability = value]
          [] attr = "humanize" -> [_events[i] EXCEPT !.humanize = value]
          [] attr = "playbackRate" -> [_events[i] EXCEPT !.playbackRate = value]]

\* the probability setter without the fan-out: only the group's field is set
set_probability_groupOnly(prob) ==
    /\ ~disposed
    /\ _probability' = prob
    /\ lastOp' = Op("probability", "", 0)
    /\ UNCHANGED <<_loop, _loopStart, _loopEnd, _playbackRate, _humanize,
                   _startOffset, _state, _events, mute, ticks, calls, disposed,
                   fault>>

\* the probability setter
set_probability(prob) ==
    /\ ~disposed
    /\ _probability' = prob
    /\ _events' = _setAll("probability", prob)
    /\ lastOp' = Op("probability", "", 0)
    /\ UNCHANGED <<_loop, _loopStart, _loopEnd, _playbackRate, _humanize,
                   _startOffset, _state, mute, ticks, calls, disposed, fault>>

\* a write to the plain field mute
set_mute(m) ==
    /\ ~disposed
    /\ mute' = m
    /\ lastOp' = Op("mute", "", 0)
    /\ UNCHANGED <<_loop, _loopStart, _loopEnd, _playbackRate, _probability,
                   _humanize, _startOffset, _state, _events, ticks, calls,
                   disposed, fault>>

\* the humanize setter
set_humanize(variation) ==
    /\ ~disposed
    /\ _humanize' = variation
    /\ _events' = _setAll("humanize", variation)
    /\ lastOp' = Op("humanize", "", 0)
    /\ UNCHANGED <<_loop, _loopStart, _loopEnd, _playbackRate, _probability,
                   _startOffset, _state, mute, ticks, calls, disposed, fault>>

\* the playbackRate setter
set_playbackRate(rate) ==
    /\ ~disposed
    /\ _playbackRate' = rate
    /\ _events' = _setAll("playbackRate", rate)
    /\ lastOp' = Op("playbackRate", "", 0)
    /\ UNCHANGED <<_loop, _loopStart, _loopEnd, _probability, _humanize,
                   _startOffset, _state, mute, ticks, calls, disposed, fault>>

\* Math.abs
abs(x) == IF x < 0 THEN -x ELSE x

\* the test of Part.prototype.at's loop: the distance in ticks is below
\* ticksToSeconds(1), the length of one tick in seconds, which is positive and
\* below 1 at any tempo above 60 / PPQ beats a minute; between whole ticks
\* that is a distance of 0
atMatches(ev, time) == abs(time - ev.startOffset) < 1

\* the loop of at returning the last match instead of the first
atFind_last(evs, time) ==
    LET m == {i \in 1..Len(evs) : atMatches(evs[i], time)}
    IN  IF m = {} THEN 0 ELSE CHOOSE i \in m : \A j \in m : i >= j

\* the loop of Part.prototype.at: the index of the first child that matches,
\* 0 when the loop ends without a match
atFind(evs, time) ==
    LET m == {i \in 1..Len(evs) : atMatches(evs[i], time)}
    IN  IF m = {} THEN 0 ELSE CHOOSE i \in m : \A j \in m : i <= j

\* at that creates a child whenever it finds none, value or not
at_alwaysCreates(time, value) ==
    /\ ~disposed
    /\ LET i == atFind(_events, time)
       IN  IF i # 0
           THEN /\ _events' = IF value # Undef
                              THEN [_events EXCEPT ![i].value = value]
                              ELSE _events
                /\ lastOp' = Op("at", IF value # Undef THEN "set" ELSE "get", i)
           ELSE /\ _events' = Append(_events,
                       _restartEvent(addedEvent(time, value), _loop,
                                     _loopStart, _loopEnd, _startOffset))
                /\ lastOp' = Op("at", IF value # Undef THEN "created" ELSE "absent",
                                IF value # Undef THEN Len(_events) + 1 ELSE 0)
    /\ UNCHANGED <<_loop, _loopStart, _loopEnd, _playbackRate, _probability,
                   _humanize, _startOffset, _state, mute, ticks, calls,
                   disposed, fault>>

\* Part.prototype.at: lastOp records what the call found ("set", "get",
\* "created", "absent") and the index of the child it returns, 0 for null;
\* with no match and a value it calls add and returns the last child
at(time, value) ==
    /\ ~disposed
    /\ LET i == atFind(_events, time)
       IN  IF i # 0
           THEN /\ _events' = IF value # Undef
                              THEN [_events EXCEPT ![i].value = value]
                              ELSE _events
                /\ lastOp' = Op("at", IF value # Undef THEN "set" ELSE "get", i)
           ELSE IF value # Undef
                THEN /\ _events' = Append(_events,
                            _restartEvent(addedEvent(time, value), _loop,
                                          _loopStart, _loopEnd, _startOffset))
                     /\ lastOp' = Op("at", "created", Len(_events) + 1)
                ELSE /\ UNCHANGED _events
                     /\ lastOp' = Op("at", "absent", 0)
    /\ UNCHANGED <<_loop, _loopStart, _loopEnd, _playbackRate, _probability,
                   _humanize, _startOffset, _state, mute, ticks, calls,
                   disposed, fault>>

----------------------------------------------------------------------------
(* Specifications *)

\* new Tone.Part(callback, {loop, loopStart, loopEnd}) with no events: the
\* other options keep their defaults
construct(loop, loopStart, loopEnd) ==
    /\ _loop = loop
    /\ _loopStart = loopStart
    /\ _loopEnd = loopEnd
    /\ _playbackRate = 1
    /\ _probability = 100
    /\ _humanize = FALSE
    /\ _startOffset = 0
    /\ _state = <<>>
    /\ _events = <<>>
    /\ mute = FALSE
    /\ ticks = 0
    /\ calls = <<>>
    /\ disposed = FALSE
    /\ fault = FALSE
    /\ lastOp = Op("new", "", 0)

\* the bounded steps: the list holds at most MaxEvents children and the clock
\* processes the ticks below MaxTicks
boundedAdd(time, value) == Len(_events) < MaxEvents /\ add(time, value)

boundedTick == ticks < MaxTicks /\ clockTick

\* Starting, stopping and cancelling a group that does not loop, while
\* children are added, the group is muted and the clock runs (the value of a
\* child plays no part in these operations: one value is added)
Init == construct(FALSE, 0, MaxTime)

Next ==
    \/ \E t \in Times, o \in Offsets : start(t, o)
    \/ \E t \in Times : stop(t)
    \/ \E t \in Times : cancel(t)
    \/ \E t \in Times : boundedAdd(t, "C2")
    \/ \E b \in BOOLEAN : set_mute(b)
    \/ boundedTick

Spec == Init /\ [][Next]_vars

\* Editing the list of children of a group, and disposing of it
NextEdit ==
    \/ \E t \in Times : start(t, 0)
    \/ \E t \in Times : cancel(t)
    \/ \E t \in Times, v \in Values : boundedAdd(t, v)
    \/ \E t \in Times, v \in Values \cup {Undef} : remove(t, v)
    \/ removeAll
    \/ dispose

SpecEdit == Init /\ [][NextEdit]_vars

\* Adding children to a group that may loop, while it is started and stopped
InitLoop == \E lp \in BOOLEAN, le \in LoopBounds : construct(lp, 0, le)

NextAdd ==
    \/ \E t \in Times, o \in Offsets : start(t, o)
    \/ \E t \in Times : stop(t)
    \/ \E t \in Times : boundedAdd(t, "C2")
    \/ boundedTick

SpecAdd == InitLoop /\ [][NextAdd]_vars

\* The loop window: a group that may loop, its window and its offset
NextLoop ==
    \/ \E t \in Times : start(t, 0)
    \/ \E t \in Times : boundedAdd(t, "C2")
    \/ \E b \in BOOLEAN : set_loop(b)
    \/ \E t \in LoopBounds : set_loopEnd(t)
    \/ \E t \in LoopBounds : set_loopStart(t)
    \/ \E o \in Offsets : set_startOffset(o)
    \/ boundedTick

SpecLoop == InitLoop /\ [][NextLoop]_vars

\* The scenario of the design document, section 8: events at ticks 0, 96 and
\* 144 (the values are those of the example in the source), a loop window of
\* [0, 96), start(0) and a running clock
ScenarioEvents ==
    <<[time |-> 0, value |-> "C2"], [time |-> 96, value |-> "C3"],
      [time |-> 144, value |-> "G2"]>>

ScenarioTicks == 300

InitScenario == \E lp \in BOOLEAN : construct(lp, 0, ScenarioEvents[2].time)

NextScenario ==
    \/ /\ Len(_events) < Len(ScenarioEvents)
       /\ add(ScenarioEvents[Len(_events) + 1].time,
              ScenarioEvents[Len(_events) + 1].value)
    \/ /\ Len(_events) = Len(ScenarioEvents)
       /\ ticks = 0
       /\ start(0, 0)
    \/ /\ _state # <<>>
       /\ ticks < ScenarioTicks
       /\ clockTick

SpecScenario == InitScenario /\ [][NextScenario]_vars

\* Reading and writing the children by their tick: a started group whose
\* children are added, moved by the group's startOffset, and got or set by at
AtTimes == 0..MaxStartOffset

boundedAt(time, value) ==
    /\ (atFind(_events, time) = 0 /\ value # Undef) => Len(_events) < MaxEvents
    /\ at(time, value)

NextAt ==
    \/ \E t \in Times : start(t, 0)
    \/ \E t \in Times, v \in Values : boundedAdd(t, v)
    \/ \E t \in AtTimes, v \in Values \cup {Undef} : boundedAt(t, v)
    \/ \E o \in Offsets : set_startOffset(o)

SpecAt == Init /\ [][NextAt]_vars


\* The settings a group hands to its children: probability, humanize,
\* playbackRate and loop are written while children are added, the group is
\* started and muted and the clock runs
NextProps ==
    \/ \E t \in Times : start(t, 0)
    \/ \E t \in Times : boundedAdd(t, "C2")
    \/ \E p \in Probabilities : set_probability(p)
    \/ \E h \in BOOLEAN : set_humanize(h)
    \/ \E r \in Rates : set_playbackRate(r)
    \/ \E b \in BOOLEAN : set_loop(b)
    \/ \E b \in BOOLEAN : set_mute(b)
    \/ boundedTick

SpecProps == Init /\ [][NextProps]_vars

\* Starting and stopping at ticks in any order a group that may loop, whose
\* children are added and moved by the group's startOffset
NextStart ==
    \/ \E t \in Times, o \in Offsets : start(t, o)
    \/ \E t \in Times : stop(t)
    \/ \E t \in Times : boundedAdd(t, "C2")
    \/ \E o \in Offsets : set_startOffset(o)

SpecStart == InitLoop /\ [][NextStart]_vars

\* Every operation on a live group but the clock: what each leaves alone.
\* The group holds one child and two records, which is all that the effect
\* of an operation on the Timeline can depend on
frameStart(time) == Len(_state) < MaxRecords - 1 /\ start(time, 0)

frameStop(time) == Len(_state) < MaxRecords - 1 /\ stop(time)

frameAdd(time) == _events = <<>> /\ add(time, "C2")

frameAt(time, value) ==
    /\ (atFind(_events, time) = 0 /\ value # Undef) => _events = <<>>
    /\ at(time, value)

NextFrame ==
    \/ \E t \in Times : frameStart(t)
    \/ \E t \in Times : frameStop(t)
    \/ \E t \in Times : cancel(t)
    \/ \E t \in Times : frameAdd(t)
    \/ \E t \in Times : remove(t, Undef)
    \/ removeAll
    \/ \E t \in Times, v \in {"C3", Undef} : frameAt(t, v)
    \/ \E b \in BOOLEAN : set_loop(b)
    \/ \E t \in LoopBounds : set_loopStart(t)
    \/ \E t \in LoopBounds : set_loopEnd(t)
    \/ \E p \in Probabilities : set_probability(p)
    \/ \E h \in BOOLEAN : set_humanize(h)
    \/ \E r \in Rates : set_playbackRate(r)
    \/ \E b \in BOOLEAN : set_mute(b)
    \/ \E o \in Offsets : set_startOffset(o)

SpecFrame == Init /\ [][NextFrame]_vars

----------------------------------------------------------------------------
(* Properties *)

\* the group's Timeline state at the tick the clock processed last
stateAtLastTick == getStateAtTime(_state, ticks - 1)

\* C1: a child's trigger invokes the user callback only when mute is false
\* and the group's Timeline state at the clock's current tick is Started;
\* a trigger scheduled by a start fires in vain at a tick the Timeline
\* reports Stopped.
C1_CallbackOnlyWhenStarted ==
    (lastOp.op = "tick" /\ calls # <<>>) =>
        (~mute /\ stateAtLastTick = Started)

\* a child's trigger was due at a tick covered by a Stopped record that
\* follows the start, the group was not muted, and nothing was invoked
C1_Witness ==
    /\ lastOp.op = "tick"
    /\ ~mute
    /\ calls = <<>>
    /\ getEvent(_state, ticks - 1).state = Stopped
    /\ \E i \in 1..Len(_events) :
           /\ eventDue(_events[i], ticks - 1)
           /\ _events[i].probability = 100
           /\ \E k \in 1..Len(_state) :
                  /\ _state[k].state = Started
                  /\ _state[k].time <= getEvent(_events[i].state, ticks - 1).time

\* the records of the Timeline at one tick alternate: none repeats the state
\* of the record before it
oneRecordPerCall ==
    \A k \in 1..(Len(_state) - 1) :
        _state[k].time = _state[k + 1].time => _state[k].state # _state[k + 1].state

\* C2: a start at a tick where the Timeline state is already Started, and a
\* stop at a tick where it is not Started, is ignored: the Timeline and every
\* child's schedule are unchanged, so that a second start(t) or stop(t) adds
\* no second record.
C2_RedundantStartStopIgnored ==
    /\ []oneRecordPerCall
    /\ [][((lastOp'.op = "start" /\ lastOp'.was = Started)
            \/ (lastOp'.op = "stop" /\ lastOp'.was = Stopped))
           => UNCHANGED <<_state, _events>>]_vars

\* a start found the group already Started at its tick, with a child in it
C2_Witness ==
    /\ lastOp.op = "start"
    /\ lastOp.was = Started
    /\ _events # <<>>
    /\ \E i \in 1..Len(_events) : _events[i].state # <<>>

\* the child's position relative to the group's baseline is outside the
\* loop window [ls, le)
outsideWindow(ev, ls, le) ==
    ev.startOffset - _startOffset < ls \/ ev.startOffset - _startOffset >= le

\* C3: while loop is true and a child's (startOffset - group startOffset) is
\* outside [loopStart, loopEnd), the child does not invoke the user callback.
C3_OutsideWindowNeverFires ==
    (lastOp.op = "tick" /\ _loop) =>
        \A k \in 1..Len(calls) :
            ~outsideWindow(_events[calls[k].index], _loopStart, _loopEnd)

\* the active Started record of the group at the clock's current tick
activeStart == getEvent(_state, ticks)

\* what a write to loop, loopStart or loopEnd does to every child when it
\* re-evaluates the window: the list keeps its length, a child outside the
\* new window has no schedule left, and a child inside it that was Stopped is
\* started at the tick of the active Started record, if there is one
windowReevaluated ==
    /\ Len(_events') = Len(_events)
    /\ \A i \in 1..Len(_events) :
           IF outsideWindow(_events[i], _loopStart', _loopEnd')
           THEN _events'[i].state = <<>>
           ELSE (eventState(_events[i]) = Stopped /\ activeStart.state = Started)
                => getStateAtTime(_events'[i].state,
                                  activeStart.time + activeStart.offset) = Started

\* C4 as stated: every write to loop, loopStart or loopEnd re-evaluates the
\* window membership of every child.
C4_EveryWindowWriteReevaluates ==
    [][lastOp'.op \in {"loop", "loopStart", "loopEnd"} => windowReevaluated]_vars

\* C4 as amended: a write to loop, and a write to loopStart or loopEnd made
\* while loop is true, re-evaluates the window membership of every child; a
\* write to loopStart or loopEnd made while loop is false leaves every child
\* as it is.
C4_WindowWriteReevaluatesWhenLooping ==
    [][/\ (lastOp'.op = "loop" \/ (lastOp'.op \in {"loopStart", "loopEnd"} /\ _loop))
           => windowReevaluated
       /\ (lastOp'.op \in {"loopStart", "loopEnd"} /\ ~_loop)
           => UNCHANGED _events]_vars

\* a write to the window of a looping group has left a child, started
\* before, in the list with no schedule
C4_Witness ==
    /\ lastOp.op \in {"loopStart", "loopEnd"}
    /\ lastOp.n > 0
    /\ _loop
    /\ _state # <<>>
    /\ \E i \in 1..Len(_events) :
           /\ outsideWindow(_events[i], _loopStart, _loopEnd)
           /\ _events[i].state = <<>>
    /\ \E i \in 1..Len(_events) :
           /\ ~outsideWindow(_events[i], _loopStart, _loopEnd)
           /\ _events[i].state # <<>>

\* the child add has just pushed
addedChild == _events[Len(_events)]

\* C5: add on a group whose Timeline reports Started at the current tick
\* starts the new child at the tick and offset of the active Started record
\* (when looping, only a child inside the window); add on a group that is
\* Stopped at the current tick schedules nothing.
C5_AddPositionsNewChild ==
    lastOp.op = "add" =>
        IF /\ activeStart.state = Started
           /\ ~(_loop /\ outsideWindow(addedChild, _loopStart, _loopEnd))
        THEN /\ Len(addedChild.state) = 1
             /\ addedChild.state[1].state = Started
             /\ addedChild.state[1].time = activeStart.time + activeStart.offset
        ELSE addedChild.state = <<>>

\* a child was added after the clock had passed the start, and was started
\* at the recorded tick plus offset
C5_Witness ==
    /\ lastOp.op = "add"
    /\ activeStart.state = Started
    /\ activeStart.offset > 0
    /\ activeStart.time < ticks
    /\ _loop
    /\ addedChild.state # <<>>

\* the invocations the scenario expects of the tick the clock processed last
\* when the group does not loop: the event placed at that tick, if any
scenarioCallsAt(t) ==
    LET placed == {k \in 1..Len(ScenarioEvents) : ScenarioEvents[k].time = t}
    IN  IF placed = {}
        THEN <<>>
        ELSE LET k == CHOOSE k \in placed : TRUE
             IN  <<[time |-> t, value |-> ScenarioEvents[k].value, index |-> k]>>

\* C6: events at ticks 0, 96 and 144, loop false, start(0): the clock running
\* past tick 144 invokes the callback exactly three times, at ticks 0, 96 and
\* 144, each with its own value, in tick order (every processed tick invokes
\* the event placed at it and nothing else).
C6_ScenarioThreeCalls ==
    (~_loop /\ ticks > 0) => calls = scenarioCallsAt(ticks - 1)

\* the clock has processed tick 144 and the third event was invoked there
C6_Witness ==
    /\ ~_loop
    /\ ticks = 145
    /\ calls = <<[time |-> 144, value |-> "G2", index |-> 3]>>

\* C7: the same events with loop true and the window [0, 96): every loop
\* iteration invokes the tick-0 event once, at its first tick, and the events
\* at 96 and 144 are never invoked.
C7_ScenarioLoopOnlyFirst ==
    (_loop /\ ticks > 0) =>
        calls = IF (ticks - 1) % ScenarioEvents[2].time = 0
                THEN <<[time |-> ticks - 1, value |-> "C2", index |-> 1]>>
                ELSE <<>>

\* the third iteration has begun with the invocation of the tick-0 event
C7_Witness ==
    /\ _loop
    /\ ticks = 2 * ScenarioEvents[2].time + 1
    /\ calls = <<[time |-> ticks - 1, value |-> "C2", index |-> 1]>>

\* C8: a second dispose on a disposed group does not fault and finds nothing
\* to do, and cancel on a group with no children and no records changes
\* nothing.
C8_DisposeTwiceIsSafe ==
    /\ (lastOp.op = "dispose" /\ lastOp.was = "disposed") => ~fault
    /\ (lastOp.op = "cancel" /\ lastOp.was = "empty") =>
           (_events = <<>> /\ _state = <<>> /\ ~fault)

\* the records of a timeline that cancel(after) keeps
upTo(tl, after) == SelectSeq(tl, LAMBDA r : r.time <= after)

C10_RemoveAllMatches ==
    [][\A t \in Times, v \in Values \cup {Undef} :
          remove(t, v) =>
              _events' = SelectSeq(_events,
                  LAMBDA ev : ~(ev.startOffset = t /\ (v = Undef \/ ev.value = v)))]_vars

\* remove found several children to remove, next to each other
C10_Witness ==
    /\ lastOp.op = "remove"
    /\ lastOp.n >= 2
    /\ _events = <<>>

\* the children at tick t, by index
childrenAt(evs, t) == {i \in 1..Len(evs) : evs[i].startOffset = t}

\* the least index of a non-empty set of indices
firstOf(m) == CHOOSE i \in m : \A j \in m : i <= j

\* C11: at(t, v) leaves the first child at tick t, in list order, with the
\* value v and returns it, and at(t) returns the first child at tick t: when
\* a child was at t its value is overwritten, the list keeps its length and
\* the other children are untouched; when none was, exactly one child is
\* created at t.
C11_AtSetsThenGets ==
    [][\A t \in AtTimes :
          /\ \A v \in Values :
                at(t, v) =>
                    LET old == childrenAt(_events, t)
                        new == childrenAt(_events', t)
                    IN  /\ new # {}
                        /\ _events'[firstOf(new)].value = v
                        /\ lastOp'.n = firstOf(new)
                        /\ IF old # {}
                           THEN /\ Len(_events') = Len(_events)
                                /\ firstOf(new) = firstOf(old)
                                /\ \A i \in 1..Len(_events) :
                                       i # firstOf(old) => _events'[i] = _events[i]
                           ELSE /\ Len(_events') = Len(_events) + 1
                                /\ Cardinality(new) = 1
                                /\ SubSeq(_events', 1, Len(_events)) = _events
          /\ (at(t, Undef) /\ childrenAt(_events, t) # {}) =>
                /\ lastOp'.n = firstOf(childrenAt(_events, t))
                /\ _events' = _events]_vars

\* at wrote the value onto the first of two children at one tick, whose
\* values now differ
C11_Witness ==
    /\ lastOp.op = "at"
    /\ lastOp.was = "set"
    /\ lastOp.n = 1
    /\ Len(_events) = 2
    /\ _events[1].startOffset = _events[2].startOffset
    /\ _events[1].value # _events[2].value

\* C12: at(time) with no value and no child at the tick returns null and
\* leaves the list, every child's schedule and the Timeline as they are; at
\* with no value never creates a child.
C12_AtAbsentReturnsNull ==
    [][\A t \in AtTimes :
          at(t, Undef) =>
              /\ Len(_events') = Len(_events)
              /\ childrenAt(_events, t) = {} =>
                     /\ lastOp'.n = 0
                     /\ UNCHANGED <<_events, _state>>]_vars

\* at found no child at the tick of a started group that has children at
\* other ticks, and returned null
C12_Witness ==
    /\ lastOp.op = "at"
    /\ lastOp.was = "absent"
    /\ lastOp.n = 0
    /\ _state # <<>>
    /\ \E i \in 1..Len(_events) : _events[i].state # <<>>

\* C13: every child carries the group's current probability, humanize,
\* playbackRate and loop, whatever the order of the adds and of the writes to
\* these four properties.
C13_ChildrenCarryGroupSettings ==
    \A i \in 1..Len(_events) :
        /\ _events[i].probability = _probability
        /\ _events[i].humanize = _humanize
        /\ _events[i].playbackRate = _playbackRate
        /\ _events[i].loop = _loop

\* a child was added to a group whose four settings had all been written
\* away from their defaults, next to a child that was there before
C13_Witness ==
    /\ lastOp.op = "add"
    /\ Len(_events) = 2
    /\ _probability = 0
    /\ _humanize
    /\ _playbackRate = 2
    /\ _loop

\* the child at index i had a trigger due at the tick the clock processed last
dueAtLastTick(i) == eventDue(_events[i], ticks - 1)

\* the user callback was invoked for the child at index i at that tick
invoked(i) == \E k \in 1..Len(calls) : calls[k].index = i

\* C14 as stated: with probability 0 no trigger invokes the user callback,
\* and with probability 1 every trigger that is due invokes it.
C14_ProbabilityBounds ==
    lastOp.op = "tick" =>
        /\ _probability = 0 => calls = <<>>
        /\ _probability = 100 =>
               \A i \in 1..Len(_events) : dueAtLastTick(i) => invoked(i)

\* C14 as amended: with probability 0 no trigger invokes the user callback;
\* with probability 1 every trigger that is due invokes it when the group is
\* not muted and its Timeline reports Started at the clock's tick, and none
\* does otherwise.
C14_ProbabilityBoundsWhenAudible ==
    lastOp.op = "tick" =>
        /\ _probability = 0 => calls = <<>>
        /\ _probability = 100 =>
               \A i \in 1..Len(_events) :
                   invoked(i) <=> /\ dueAtLastTick(i)
                                  /\ ~mute
                                  /\ stateAtLastTick = Started

\* with probability 1 the triggers of two children were due at one tick and
\* both invoked the callback, after the probability had been 0
C14_Witness ==
    /\ lastOp.op = "tick"
    /\ _probability = 100
    /\ Len(calls) = 2
    /\ dueAtLastTick(1)
    /\ dueAtLastTick(2)

\* the timeline tl with the record rec put in at some place
putIn(tl, rec, tl2) ==
    \E k \in 1..Len(tl2) :
        /\ tl2[k] = rec
        /\ SubSeq(tl2, 1, k - 1) \o SubSeq(tl2, k + 1, Len(tl2)) = tl

\* C15: a start(T, offset) that finds the group not Started at T adds the
\* record {Started, T, offset} to the Timeline and positions every child:
\* a child of a group that does not loop, and a child of a looping group with
\* loopStart <= child.startOffset - group.startOffset < loopEnd, is Started
\* at T + offset (by a new record at T + offset that carries the group's
\* startOffset when looping, unless the child was Started there already);
\* every other child is left as it was.
C15_StartPositionsChildren ==
    [][\A T \in Times, offset \in Offsets :
          (start(T, offset) /\ getStateAtTime(_state, T) # Started) =>
              /\ putIn(_state, [state |-> Started, time |-> T, offset |-> offset],
                       _state')
              /\ Len(_events') = Len(_events)
              /\ \A i \in 1..Len(_events) :
                     IF ~_loop \/ ~outsideWindow(_events[i], _loopStart, _loopEnd)
                     THEN /\ getStateAtTime(_events'[i].state, T + offset) = Started
                          /\ IF getStateAtTime(_events[i].state, T + offset) = Started
                             THEN _events'[i] = _events[i]
                             ELSE putIn(_events[i].state,
                                        [state |-> Started, time |-> T + offset,
                                         offset |-> IF _loop THEN _startOffset ELSE 0],
                                        _events'[i].state)
                     ELSE _events'[i] = _events[i]]_vars

\* an effective start of a looping group whose startOffset had been written
\* started the child inside the window, with the group's startOffset as its
\* offset, and not the child outside it
C15_Witness ==
    /\ lastOp.op = "start"
    /\ lastOp.was = Stopped
    /\ _loop
    /\ _startOffset > 0
    /\ Len(_events) = 2
    /\ \E i, j \in 1..2 :
           /\ ~outsideWindow(_events[i], _loopStart, _loopEnd)
           /\ Len(_events[i].state) = 1
           /\ _events[i].state[1].offset = _startOffset
           /\ outsideWindow(_events[j], _loopStart, _loopEnd)
           /\ _events[j].state = <<>>

\* the operations that C16 lists as leaving the Timeline alone
timelineBystanders ==
    {"add", "remove", "removeAll", "at", "loop", "loopStart", "loopEnd",
     "probability", "humanize", "playbackRate", "mute", "startOffset"}

\* C16: the Timeline grows only by start and stop and shrinks only by
\* cancel: add, remove, removeAll, at and a write to any of loop, loopStart,
\* loopEnd, probability, humanize, playbackRate, mute and startOffset leave
\* its records unchanged; start and stop remove none, cancel adds none.
C16_TimelineFrame ==
    [][/\ lastOp'.op \in timelineBystanders => _state' = _state
       /\ Len(_state') > Len(_state) => lastOp'.op \in {"start", "stop"}
       /\ Len(_state') < Len(_state) => lastOp'.op = "cancel"
       /\ lastOp'.op \in {"start", "stop"} =>
              \A k \in 1..Len(_state) : \E j \in 1..Len(_state') : _state'[j] = _state[k]
       /\ lastOp'.op = "cancel" =>
              \A j \in 1..Len(_state') : \E k \in 1..Len(_state) : _state[k] = _state'[j]]_vars

\* removeAll emptied the list of a group whose Timeline holds a start and a
\* stop, and left both records
C16_Witness ==
    /\ lastOp.op = "removeAll"
    /\ Len(_state) = 2
    /\ _state[1].state = Started
    /\ _state[2].state = Stopped
    /\ _events = <<>>
    /\ _loop

\* C17: while the group does not loop the window plays no part: an
\* effective start schedules every child, and a write of loop = false, of
\* loopStart or of loopEnd on a group that does not loop leaves every child's
\* schedule as it is, so that no child is cancelled for lying outside
\* [loopStart, loopEnd).
C17_NonLoopingIgnoresWindow ==
    [][/\ (lastOp'.op = "start" /\ lastOp'.was = Stopped /\ ~_loop) =>
              \A i \in 1..Len(_events) : _events'[i].state # <<>>
       /\ (lastOp'.op \in {"loop", "loopStart", "loopEnd"} /\ ~_loop /\ ~_loop') =>
              \A i \in 1..Len(_events) : _events'[i].state = _events[i].state]_vars

\* C18: a write to the group's startOffset keeps every child's position
\* relative to the group's baseline, child.startOffset - group.startOffset,
\* whatever the startOffset was before the write.
C18_StartOffsetKeepsRelativePositions ==
    [][lastOp'.op = "startOffset" =>
          /\ Len(_events') = Len(_events)
          /\ \A i \in 1..Len(_events) :
                 _events'[i].startOffset - _startOffset'
                     = _events[i].startOffset - _startOffset]_vars

\* C19: while the group's loop is enabled every child's own loop runs from 0
\* to the length of the group's window, loopEnd - loopStart, whatever adds
\* and writes to loop, loopStart and loopEnd came before.
C19_ChildLoopLengthFollowsWindow ==
    _loop => \A i \in 1..Len(_events) :
                 /\ _events[i].loopStart = 0
                 /\ _events[i].loopEnd = _loopEnd - _loopStart

\* loop was enabled on a group whose window had been written while loop was
\* false, leaving the children's loop length out of date until then
C19_Witness ==
    /\ lastOp.op = "loop"
    /\ lastOp.was = "stale"
    /\ _loop
    /\ Len(_events) = 2
    /\ _loopEnd - _loopStart # 0

\* C20: the records of the group's Timeline, read in tick order, alternate
\* between Started and Stopped: no two consecutive records have the same
\* state, whatever the order of the ticks of the start and stop calls.
C20_TimelineAlternates ==
    \A k \in 1..(Len(_state) - 1) : _state[k].state # _state[k + 1].state

====
